---- MODULE Spec2Model ----
(***************************************************************************)
(* State-machine model of mp4.MediaSegment (src/mp4/mediasegment.go): a    *)
(* media segment that aggregates an optional styp box, sidx boxes bucketed *)
(* by the fragment they precede, and an ordered list of fragments.         *)
(*                                                                         *)
(* Pointers are modelled by identity: a box is a record carrying its kind  *)
(* and an id, a *Fragment is an index into the variable heap.  The boxes,  *)
(* the fragments' own methods and the writers are collaborators outside    *)
(* src/mp4/mediasegment.go; they are modelled at their interface.          *)
(***************************************************************************)
EXTENDS Integers, Sequences, FiniteSets, TLC

VARIABLES
    Styp,         \* s.Styp: a styp box or Nil
    Sidx,         \* s.Sidx: a sidx box or Nil
    SidxsByFrag,  \* s.SidxsByFrag: sequence of sequences of sidx boxes
    Fragments,    \* s.Fragments: sequence of fragment pointers (indices of heap)
    EncOptimize,  \* s.EncOptimize
    heap,         \* the Fragment objects the pointers refer to
    hist,         \* ghost: the AddSidx/AddFragment calls made so far, in call order
    last          \* the last call: its name, argument and what it returned

vars == <<Styp, Sidx, SidxsByFrag, Fragments, EncOptimize, heap, hist, last>>

segment == <<Styp, Sidx, SidxsByFrag, Fragments, EncOptimize>>

----------------------------------------------------------------------------
(* Bounds *)

\* Most AddSidx/AddFragment calls made on one segment.
MaxCalls == 3

\* Most samples in the input of one Fragmentify run of SpecFragmentify.
MaxSamples == 3

----------------------------------------------------------------------------
(* Values *)

\* The nil pointer.
Nil == [kind |-> "nil", id |-> 0, size |-> 0]

Box(kind, id, size) == [kind |-> kind, id |-> id, size |-> size]

\* The styp box CreateStyp() returns, and the one a caller may pass in.
CreateStyp == Box("styp", 1, 28)

\* The sidx box instances a caller appends (distinct pointers, never nil).
SidxBoxes == {Box("sidx", 1, 44), Box("sidx", 2, 56)}

\* The non-nil track-defaults box.
TrexBox == Box("trex", 1, 32)

\* The two EncOptimize values.
OptimizeNone == "OptimizeNone"
OptimizeTrun == "OptimizeTrun"
EncOptimizeValues == {OptimizeNone, OptimizeTrun}

----------------------------------------------------------------------------
(* uint32 arithmetic.  A uint32 is the pair <<hi, lo>> of its 16-bit halves,  *)
(* so that values up to 2^32 - 1 and the wrap-around of + stay exact.         *)

Half == 65536

U32(hi, lo) == <<hi, lo>>

Zero32 == U32(0, 0)

\* a + b on uint32: wraps modulo 2^32.
Add32(a, b) ==
    LET lo == a[2] + b[2]
    IN  U32((a[1] + b[1] + (lo \div Half)) % Half, lo % Half)

\* a >= b on uint32.
Geq32(a, b) == a[1] > b[1] \/ (a[1] = b[1] /\ a[2] >= b[2])

----------------------------------------------------------------------------
(* Fragments.  A Fragment object holds what MediaSegment reads from it:      *)
(* Moof.Mfhd.SequenceNumber, Moof.Traf.Tfhd.TrackID, Children, the durations *)
(* of its samples, and its EncOptimize flag.                                 *)

Fragment(seq, track, children, durs) ==
    [SequenceNumber |-> seq, TrackID |-> track, Children |-> children,
     samples |-> durs, EncOptimize |-> OptimizeNone]

\* The Fragment objects a caller of AddFragment holds: two fragments of
\* different tracks, each with a moof and an mdat box.
FragmentPool ==
    << Fragment(1, 1, <<Box("moof", 1, 120), Box("mdat", 1, 520)>>,
                <<U32(0, 1024), U32(0, 1024)>>),
       Fragment(2, 2, <<Box("moof", 2, 112), Box("mdat", 2, 264)>>,
                <<U32(0, 2048)>>) >>

\* The same with a third, empty fragment (no child box, no sample).
QueryPool == Append(FragmentPool, Fragment(3, 1, <<>>, <<>>))

\* Box.Size() of a styp or sidx box.
BoxSize(b) == b.size

RECURSIVE SumSizes(_)
SumSizes(boxes) ==
    IF boxes = <<>> THEN 0 ELSE BoxSize(Head(boxes)) + SumSizes(Tail(boxes))

\* Fragment.Size(): the sizes of the fragment's child boxes.
FragSize(h, f) == SumSizes(h[f].Children)

----------------------------------------------------------------------------
(* Constructors *)

\* NewMediaSegment(): a CMAF styp box, everything else zero.
NewMediaSegment ==
    /\ Styp = CreateStyp
    /\ Sidx = Nil
    /\ SidxsByFrag = <<>>
    /\ Fragments = <<>>
    /\ EncOptimize = OptimizeNone

\* NewMediaSegmentWithStyp(styp).
NewMediaSegmentWithStyp(styp) ==
    /\ Styp = styp
    /\ Sidx = Nil
    /\ SidxsByFrag = <<>>
    /\ Fragments = <<>>
    /\ EncOptimize = OptimizeNone

\* NewMediaSegmentWithoutStyp().
NewMediaSegmentWithoutStyp ==
    /\ Styp = Nil
    /\ Sidx = Nil
    /\ SidxsByFrag = <<>>
    /\ Fragments = <<>>
    /\ EncOptimize = OptimizeNone

NoCall == [op |-> "new", arg |-> Nil, ret |-> Nil, err |-> "nil"]

\* A segment as a constructor returns it; no call has been made on it.
Constructed ==
    /\ \/ NewMediaSegment
       \/ NewMediaSegmentWithStyp(CreateStyp)
       \/ NewMediaSegmentWithoutStyp
    /\ hist = <<>>
    /\ last = NoCall

Init == Constructed /\ heap = FragmentPool

----------------------------------------------------------------------------
(* AddSidx, AddFragment, LastFragment *)

\* Mutant: every AddSidx overwrites s.Sidx, as if line 52 were not there.
AddSidxFirst_Overwrite(cur, sidx) == sidx

\* s.Sidx after AddSidx(sidx): lines 52-54.
AddSidxFirst(cur, sidx) == IF cur = Nil THEN sidx ELSE cur

\* Mutant: the bucket is grown on every call, as if line 55 were not there.
AddSidxBuckets_AlwaysGrow(sbf, nfrags, sidx) ==
    LET grown == Append(sbf, <<>>)
    IN  [grown EXCEPT ![nfrags + 1] = Append(@, sidx)]

\* Mutant: the box is put at the front of its bucket.
AddSidxBuckets_Prepend(sbf, nfrags, sidx) ==
    LET grown == IF Len(sbf) = nfrags THEN Append(sbf, <<>>) ELSE sbf
    IN  [grown EXCEPT ![nfrags + 1] = <<sidx>> \o @]

\* Mutant: the sidx box replaces the content of the bucket it goes to.
AddSidxBuckets_Replace(sbf, nfrags, sidx) ==
    LET grown == IF Len(sbf) = nfrags THEN Append(sbf, <<>>) ELSE sbf
    IN  [grown EXCEPT ![nfrags + 1] = <<sidx>>]

\* s.SidxsByFrag after AddSidx(sidx) with nfrags = len(s.Fragments): lines 55-58.
\* Go's index len(s.Fragments) is position nfrags + 1 here.
AddSidxBuckets(sbf, nfrags, sidx) ==
    LET grown == IF Len(sbf) = nfrags THEN Append(sbf, <<>>) ELSE sbf
    IN  [grown EXCEPT ![nfrags + 1] = Append(@, sidx)]

AddSidx(sidx) ==
    /\ Len(hist) < MaxCalls
    \* line 58 indexes SidxsByFrag[len(Fragments)]: out of range would panic
    /\ Len(SidxsByFrag) >= Len(Fragments)
    /\ Sidx' = AddSidxFirst(Sidx, sidx)
    /\ SidxsByFrag' = AddSidxBuckets(SidxsByFrag, Len(Fragments), sidx)
    /\ hist' = Append(hist, [op |-> "AddSidx", arg |-> sidx])
    /\ last' = [op |-> "AddSidx", arg |-> sidx, ret |-> Nil, err |-> "nil"]
    /\ UNCHANGED <<Styp, Fragments, EncOptimize, heap>>

\* s.SidxsByFrag after AddFragment, frags being the new s.Fragments: lines 64-66.
AddFragmentBuckets(sbf, frags) ==
    IF Len(sbf) < Len(frags) THEN Append(sbf, <<>>) ELSE sbf

AddFragment(f) ==
    /\ Len(hist) < MaxCalls
    /\ Fragments' = Append(Fragments, f)
    /\ SidxsByFrag' = AddFragmentBuckets(SidxsByFrag, Fragments')
    /\ hist' = Append(hist, [op |-> "AddFragment", arg |-> f])
    /\ last' = [op |-> "AddFragment", arg |-> f, ret |-> Nil, err |-> "nil"]
    /\ UNCHANGED <<Styp, Sidx, EncOptimize, heap>>

\* The fragment LastFragment() returns: 0 stands for the nil *Fragment.
LastFragmentOf(frags) == IF Len(frags) = 0 THEN 0 ELSE frags[Len(frags)]

LastFragment ==
    /\ last' = [op |-> "LastFragment", arg |-> Nil,
                ret |-> LastFragmentOf(Fragments), err |-> "nil"]
    /\ UNCHANGED <<segment, heap, hist>>

\* A caller assigns the exported field s.EncOptimize.
SetEncOptimize(v) ==
    /\ v # EncOptimize
    /\ EncOptimize' = v
    /\ last' = [op |-> "SetEncOptimize", arg |-> v, ret |-> Nil, err |-> "nil"]
    /\ UNCHANGED <<Styp, Sidx, SidxsByFrag, Fragments, heap, hist>>

----------------------------------------------------------------------------
(* Size *)

\* Mutant: Size leaves the sidx boxes out.
SizeSidxs_Skip(bucket) == 0

\* The inner loop of Size over one bucket (lines 84-86).
RECURSIVE SizeSidxs(_)
SizeSidxs(bucket) ==
    IF bucket = <<>> THEN 0 ELSE BoxSize(Head(bucket)) + SizeSidxs(Tail(bucket))

\* The loop of Size over s.Fragments from position i on (lines 83-88).
RECURSIVE SizeFrags(_, _, _, _)
SizeFrags(sbf, frags, h, i) ==
    IF i > Len(frags) THEN 0
    ELSE SizeSidxs(sbf[i]) + FragSize(h, frags[i]) + SizeFrags(sbf, frags, h, i + 1)

\* MediaSegment.Size().
SizeOf(styp, sbf, frags, h) ==
    (IF styp # Nil THEN BoxSize(styp) ELSE 0) + SizeFrags(sbf, frags, h, 1)

Size ==
    \* line 84 indexes SidxsByFrag[i] for every fragment: out of range would panic
    /\ Len(SidxsByFrag) >= Len(Fragments)
    /\ last' = [op |-> "Size", arg |-> Nil,
                ret |-> SizeOf(Styp, SidxsByFrag, Fragments, heap), err |-> "nil"]
    /\ UNCHANGED <<segment, heap, hist>>

----------------------------------------------------------------------------
(* Encode, EncodeSW, Info.  The writer is the caller's: which write fails, if *)
(* any, is an input.  failAt = k > 0 makes the k-th box handed to the writer  *)
(* fail; failAt = 0 lets every write succeed.  The output is the sequence of  *)
(* boxes written; a fragment is logged with the EncOptimize flag it carried   *)
(* when its own encode was invoked.                                           *)

WrittenBox(b) == [kind |-> b.kind, id |-> b.id, size |-> BoxSize(b), opt |-> "-"]

WrittenFrag(h, f) ==
    [kind |-> "fragment", id |-> f, size |-> FragSize(h, f), opt |-> h[f].EncOptimize]

WriteOK == "nil"
WriteError == "write error"

\* One box's Encode(w) / EncodeSW(sw) / Info(w, ...) and the `if err != nil
\* { return err }` after it: once an error is set nothing more is done.
EncodeOne(st, entry, failAt) ==
    IF st.err # WriteOK THEN st
    ELSE IF Len(st.out) + 1 = failAt THEN [st EXCEPT !.err = WriteError]
    ELSE [st EXCEPT !.out = Append(@, entry)]

\* Mutant: the sidx boxes of a bucket are not written.
EncodeSidxs_Skip(st, bucket, failAt) == st

\* The inner loop over one bucket (lines 101-106, 125-130, 149-154).
RECURSIVE EncodeSidxs(_, _, _)
EncodeSidxs(st, bucket, failAt) ==
    IF bucket = <<>> \/ st.err # WriteOK THEN st
    ELSE EncodeSidxs(EncodeOne(st, WrittenBox(Head(bucket)), failAt), Tail(bucket), failAt)

\* Mutant: the fragment is encoded first and gets the segment's flag after
\* its encode.
RECURSIVE EncodeFrags_SetAfter(_, _, _, _, _, _)
EncodeFrags_SetAfter(st, sbf, frags, opt, failAt, i) ==
    IF i > Len(frags) \/ st.err # WriteOK THEN st
    ELSE LET s1 == EncodeSidxs(st, sbf[i], failAt)
             s2 == EncodeOne(s1, WrittenFrag(s1.heap, frags[i]), failAt)
             s3 == [s2 EXCEPT !.heap[frags[i]].EncOptimize = opt]
         IN  IF s1.err # WriteOK THEN s1
             ELSE EncodeFrags_SetAfter(s3, sbf, frags, opt, failAt, i + 1)

\* The loop over s.Fragments from position i on (lines 100-112, 124-136):
\* the bucket's sidx boxes, then f.EncOptimize = s.EncOptimize, then f itself.
RECURSIVE EncodeFrags(_, _, _, _, _, _)
EncodeFrags(st, sbf, frags, opt, failAt, i) ==
    IF i > Len(frags) \/ st.err # WriteOK THEN st
    ELSE LET s1 == EncodeSidxs(st, sbf[i], failAt)
             s2 == [s1 EXCEPT !.heap[frags[i]].EncOptimize = opt]
             s3 == EncodeOne(s2, WrittenFrag(s2.heap, frags[i]), failAt)
         IN  IF s1.err # WriteOK THEN s1
             ELSE EncodeFrags(s3, sbf, frags, opt, failAt, i + 1)

\* Mutant: the error of the styp box's encode is dropped and the traversal
\* goes on.
EncodeRun_IgnoreStypErr(styp, sbf, frags, opt, h, failAt) ==
    LET st0 == [out |-> <<>>, err |-> WriteOK, heap |-> h]
        st1 == IF styp # Nil
               THEN [EncodeOne(st0, WrittenBox(styp), failAt) EXCEPT !.err = WriteOK]
               ELSE st0
    IN  EncodeFrags(st1, sbf, frags, opt, failAt, 1)

\* MediaSegment.Encode(w) and MediaSegment.EncodeSW(sw): the same traversal.
EncodeRun(styp, sbf, frags, opt, h, failAt) ==
    LET st0 == [out |-> <<>>, err |-> WriteOK, heap |-> h]
        st1 == IF styp # Nil THEN EncodeOne(st0, WrittenBox(styp), failAt) ELSE st0
    IN  EncodeFrags(st1, sbf, frags, opt, failAt, 1)

\* The number of boxes the traversal hands to the writer when nothing fails.
NumTopBoxes == Len(EncodeRun(Styp, SidxsByFrag, Fragments, EncOptimize, heap, 0).out)

Encode(failAt) ==
    /\ Len(SidxsByFrag) >= Len(Fragments)
    /\ LET r == EncodeRun(Styp, SidxsByFrag, Fragments, EncOptimize, heap, failAt)
       IN  /\ heap' = r.heap
           /\ last' = [op |-> "Encode", arg |-> failAt, ret |-> r.out, err |-> r.err]
    /\ UNCHANGED <<segment, hist>>

EncodeSW(failAt) ==
    /\ Len(SidxsByFrag) >= Len(Fragments)
    /\ LET r == EncodeRun(Styp, SidxsByFrag, Fragments, EncOptimize, heap, failAt)
       IN  /\ heap' = r.heap
           /\ last' = [op |-> "EncodeSW", arg |-> failAt, ret |-> r.out, err |-> r.err]
    /\ UNCHANGED <<segment, hist>>

\* Info's loop over s.Fragments (lines 148-159): no flag is set.
RECURSIVE InfoFrags(_, _, _, _, _, _)
InfoFrags(st, sbf, frags, h, failAt, i) ==
    IF i > Len(frags) \/ st.err # WriteOK THEN st
    ELSE LET s1 == EncodeSidxs(st, sbf[i], failAt)
             s2 == EncodeOne(s1, WrittenFrag(h, frags[i]), failAt)
         IN  InfoFrags(s2, sbf, frags, h, failAt, i + 1)

\* MediaSegment.Info(w, ...).
InfoRun(styp, sbf, frags, h, failAt) ==
    LET st0 == [out |-> <<>>, err |-> WriteOK, heap |-> h]
        st1 == IF styp # Nil THEN EncodeOne(st0, WrittenBox(styp), failAt) ELSE st0
    IN  InfoFrags(st1, sbf, frags, h, failAt, 1)

Info(failAt) ==
    /\ Len(SidxsByFrag) >= Len(Fragments)
    /\ LET r == InfoRun(Styp, SidxsByFrag, Fragments, heap, failAt)
       IN  last' = [op |-> "Info", arg |-> failAt, ret |-> r.out, err |-> r.err]
    /\ UNCHANGED <<segment, heap, hist>>

----------------------------------------------------------------------------
(* FirstBox *)

NoBoxes == "no boxes in segment"

\* Mutant: a segment without any box is reported by a nil box, without the
\* error.
FirstBoxOf_NoError(styp, sbf, frags, h) ==
    IF styp # Nil THEN [box |-> styp, err |-> "nil"]
    ELSE IF Len(sbf) > 0 /\ Len(sbf[1]) > 0 THEN [box |-> sbf[1][1], err |-> "nil"]
    ELSE IF Len(frags) > 0 /\ Len(h[frags[1]].Children) > 0
         THEN [box |-> h[frags[1]].Children[1], err |-> "nil"]
    ELSE [box |-> Nil, err |-> "nil"]

\* Mutant: the first fragment's first child is looked for before the first
\* sidx box.
FirstBoxOf_FragmentFirst(styp, sbf, frags, h) ==
    IF styp # Nil THEN [box |-> styp, err |-> "nil"]
    ELSE IF Len(frags) > 0 /\ Len(h[frags[1]].Children) > 0
         THEN [box |-> h[frags[1]].Children[1], err |-> "nil"]
    ELSE IF Len(sbf) > 0 /\ Len(sbf[1]) > 0 THEN [box |-> sbf[1][1], err |-> "nil"]
    ELSE [box |-> Nil, err |-> "no boxes in segment"]

\* Mutant: the first sidx box is looked for before the styp box.
FirstBoxOf_SidxFirst(styp, sbf, frags, h) ==
    IF Len(sbf) > 0 /\ Len(sbf[1]) > 0 THEN [box |-> sbf[1][1], err |-> "nil"]
    ELSE IF styp # Nil THEN [box |-> styp, err |-> "nil"]
    ELSE IF Len(frags) > 0 /\ Len(h[frags[1]].Children) > 0
         THEN [box |-> h[frags[1]].Children[1], err |-> "nil"]
    ELSE [box |-> Nil, err |-> "no boxes in segment"]

\* MediaSegment.FirstBox(): the box and the error it returns.
FirstBoxOf(styp, sbf, frags, h) ==
    IF styp # Nil THEN [box |-> styp, err |-> "nil"]
    ELSE IF Len(sbf) > 0 /\ Len(sbf[1]) > 0 THEN [box |-> sbf[1][1], err |-> "nil"]
    ELSE IF Len(frags) > 0 /\ Len(h[frags[1]].Children) > 0
         THEN [box |-> h[frags[1]].Children[1], err |-> "nil"]
    ELSE [box |-> Nil, err |-> NoBoxes]

FirstBox ==
    /\ LET r == FirstBoxOf(Styp, SidxsByFrag, Fragments, heap)
       IN  last' = [op |-> "FirstBox", arg |-> Nil, ret |-> r.box, err |-> r.err]
    /\ UNCHANGED <<segment, heap, hist>>

----------------------------------------------------------------------------
(* CommonSampleDuration *)

\* Fragment.CommonSampleDuration(trex), the fragment's own resolver: the
\* duration all its samples share when that is non-zero, an error otherwise.
FragCommonSampleDuration(h, f) ==
    LET durs == h[f].samples
    IN  IF Len(durs) > 0 /\ durs[1] # Zero32 /\ \A j \in DOMAIN durs : durs[j] = durs[1]
        THEN [dur |-> durs[1], err |-> "nil"]
        ELSE [dur |-> Zero32, err |-> "no common sample duration"]

TrexNotSet == "trex not set"
FragmentError == "fragment.CommonSampleDuration"
DifferentDuration == "different common sample duration in fragment"

\* The loop of MediaSegment.CommonSampleDuration from position i on, commonDur
\* being the value held so far (lines 208-219).  The result names, in frag,
\* the fragment number the error message carries (0: none).
RECURSIVE CommonDurLoop(_, _, _, _)
CommonDurLoop(frags, h, commonDur, i) ==
    IF i > Len(frags) THEN [dur |-> commonDur, err |-> "nil", frag |-> 0]
    ELSE LET r == FragCommonSampleDuration(h, frags[i])
         IN  IF r.err # "nil" THEN [dur |-> Zero32, err |-> FragmentError, frag |-> 0]
             ELSE IF i = 1 THEN CommonDurLoop(frags, h, r.dur, i + 1)
             ELSE IF commonDur # r.dur
                  THEN [dur |-> Zero32, err |-> DifferentDuration, frag |-> i]
             ELSE CommonDurLoop(frags, h, commonDur, i + 1)

\* Mutant: the error names the fragment by its 0-based index.
CommonSampleDurationOf_ZeroBased(frags, h, trex) ==
    LET r == IF trex = Nil THEN [dur |-> Zero32, err |-> TrexNotSet, frag |-> 0]
             ELSE CommonDurLoop(frags, h, Zero32, 1)
    IN  IF r.err = DifferentDuration THEN [r EXCEPT !.frag = @ - 1] ELSE r

\* MediaSegment.CommonSampleDuration(trex).
CommonSampleDurationOf(frags, h, trex) ==
    IF trex = Nil THEN [dur |-> Zero32, err |-> TrexNotSet, frag |-> 0]
    ELSE CommonDurLoop(frags, h, Zero32, 1)

CommonSampleDuration(trex) ==
    /\ LET r == CommonSampleDurationOf(Fragments, heap, trex)
       IN  last' = [op |-> "CommonSampleDuration", arg |-> trex,
                    ret |-> [dur |-> r.dur, frag |-> r.frag], err |-> r.err]
    /\ UNCHANGED <<segment, heap, hist>>

----------------------------------------------------------------------------
(* Fragmentify *)

\* Fragment.GetFullSamples(trex): the fragment's samples, each with its
\* duration; src and pos identify the sample (its payload).
GetFullSamples(h, f) ==
    [j \in DOMAIN h[f].samples |-> [src |-> f, pos |-> j, Dur |-> h[f].samples[j]]]

\* CreateFragment(seqNumber, trackID): a new fragment without samples.
CreateFragment(seq, track) ==
    [SequenceNumber |-> seq, TrackID |-> track, samples |-> <<>>]

\* The pointer CreateFragment returns (line 183): the n-th fragment a call
\* creates is a new object, at an address no fragment of the heap has (the
\* heap's addresses are 1..Len(heap)).
Allocate(n, frag) ==
    [ptr |-> 0 - n, SequenceNumber |-> frag.SequenceNumber,
     TrackID |-> frag.TrackID, samples |-> frag.samples]

\* of.AddFullSampleToTrack(s, trackID): the sample goes to the end of the
\* fragment, under the given track.
AddFullSampleToTrack(of, s, track) ==
    [of EXCEPT !.samples = Append(@, [sample |-> s, track |-> track])]

\* The collaborator calls that can fail, and the failures a run can be given:
\* kind "none", or the at-th call of the named kind fails.
NoFailure == [kind |-> "none", at |-> 0]
Failure(kind, at) == [kind |-> kind, at |-> at]
Fails(fail, kind, n) == fail.kind = kind /\ fail.at = n

NilDeref == "panic: nil pointer dereference"

\* Mutant: the threshold is tested before the sample is inserted, and the
\* sample that reaches it is dropped.
FragmentifySample_Drop(st, seq, trackID, s, duration, fail) ==
    LET create == st.cumDur = Zero32
        nCreate == IF create THEN st.nCreate + 1 ELSE st.nCreate
        out1 == IF create THEN Append(st.out, Allocate(nCreate, CreateFragment(seq, trackID))) ELSE st.out
        out2 == [out1 EXCEPT ![Len(out1)] = AddFullSampleToTrack(@, s, trackID)]
        cum == Add32(st.cumDur, s.Dur)
    IN  IF create /\ Fails(fail, "CreateFragment", nCreate)
        THEN [st EXCEPT !.err = "CreateFragment", !.nCreate = nCreate]
        ELSE IF Fails(fail, "AddFullSampleToTrack", st.nAdd + 1)
        THEN [st EXCEPT !.err = "AddFullSampleToTrack", !.out = out1,
                        !.nCreate = nCreate, !.nAdd = @ + 1]
        ELSE IF Geq32(cum, duration) /\ ~create
        THEN [st EXCEPT !.out = out1, !.nCreate = nCreate, !.cumDur = Zero32]
        ELSE [st EXCEPT !.out = out2, !.nCreate = nCreate, !.nAdd = @ + 1,
                        !.cumDur = IF Geq32(cum, duration) THEN Zero32 ELSE cum]

\* Mutant: the accumulator is reset only when it exceeds the target
\* (cumDur > duration).
FragmentifySample_Gt(st, seq, trackID, s, duration, fail) ==
    LET create == st.cumDur = Zero32
        nCreate == IF create THEN st.nCreate + 1 ELSE st.nCreate
        out1 == IF create THEN Append(st.out, Allocate(nCreate, CreateFragment(seq, trackID))) ELSE st.out
        out2 == [out1 EXCEPT ![Len(out1)] = AddFullSampleToTrack(@, s, trackID)]
        cum == Add32(st.cumDur, s.Dur)
    IN  IF create /\ Fails(fail, "CreateFragment", nCreate)
        THEN [st EXCEPT !.err = "CreateFragment", !.nCreate = nCreate]
        ELSE IF Fails(fail, "AddFullSampleToTrack", st.nAdd + 1)
        THEN [st EXCEPT !.err = "AddFullSampleToTrack", !.out = out1,
                        !.nCreate = nCreate, !.nAdd = @ + 1]
        ELSE [st EXCEPT !.out = out2, !.nCreate = nCreate, !.nAdd = @ + 1,
                        !.cumDur = IF Geq32(cum, duration) /\ cum # duration
                                   THEN Zero32 ELSE cum]

\* Mutant: the arguments of CreateFragment are swapped.
FragmentifySample_SwapArgs(st, seq, trackID, s, duration, fail) ==
    LET create == st.cumDur = Zero32
        nCreate == IF create THEN st.nCreate + 1 ELSE st.nCreate
        out1 == IF create THEN Append(st.out, Allocate(nCreate, CreateFragment(trackID, seq))) ELSE st.out
        out2 == [out1 EXCEPT ![Len(out1)] = AddFullSampleToTrack(@, s, trackID)]
        cum == Add32(st.cumDur, s.Dur)
    IN  IF create /\ Fails(fail, "CreateFragment", nCreate)
        THEN [st EXCEPT !.err = "CreateFragment", !.nCreate = nCreate]
        ELSE IF Fails(fail, "AddFullSampleToTrack", st.nAdd + 1)
        THEN [st EXCEPT !.err = "AddFullSampleToTrack", !.out = out1,
                        !.nCreate = nCreate, !.nAdd = @ + 1]
        ELSE [st EXCEPT !.out = out2, !.nCreate = nCreate, !.nAdd = @ + 1,
                        !.cumDur = IF Geq32(cum, duration) THEN Zero32 ELSE cum]

\* The body of the loop over samples for one sample s (lines 179-196).
FragmentifySample(st, seq, trackID, s, duration, fail) ==
    LET create == st.cumDur = Zero32
        nCreate == IF create THEN st.nCreate + 1 ELSE st.nCreate
        out1 == IF create THEN Append(st.out, Allocate(nCreate, CreateFragment(seq, trackID))) ELSE st.out
        out2 == [out1 EXCEPT ![Len(out1)] = AddFullSampleToTrack(@, s, trackID)]
        cum == Add32(st.cumDur, s.Dur)
    IN  IF create /\ Fails(fail, "CreateFragment", nCreate)
        THEN [st EXCEPT !.err = "CreateFragment", !.nCreate = nCreate]
        ELSE IF Fails(fail, "AddFullSampleToTrack", st.nAdd + 1)
        THEN [st EXCEPT !.err = "AddFullSampleToTrack", !.out = out1,
                        !.nCreate = nCreate, !.nAdd = @ + 1]
        ELSE [st EXCEPT !.out = out2, !.nCreate = nCreate, !.nAdd = @ + 1,
                        !.cumDur = IF Geq32(cum, duration) THEN Zero32 ELSE cum]

\* Mutant: the accumulator starts at zero for every input fragment, as if
\* cumDur were declared inside the loop over the input fragments.
RECURSIVE FragmentifySamples_Loop(_, _, _, _, _, _)
FragmentifySamples_Loop(st, seq, trackID, samples, duration, fail) ==
    IF samples = <<>> \/ st.err # "nil" THEN st
    ELSE FragmentifySamples_Loop(
             FragmentifySample(st, seq, trackID, Head(samples), duration, fail),
             seq, trackID, Tail(samples), duration, fail)

FragmentifySamples_ResetCum(st, seq, trackID, samples, duration, fail) ==
    FragmentifySamples_Loop([st EXCEPT !.cumDur = Zero32],
                            seq, trackID, samples, duration, fail)

\* The loop over the samples of one input fragment (line 178).
RECURSIVE FragmentifySamples(_, _, _, _, _, _)
FragmentifySamples(st, seq, trackID, samples, duration, fail) ==
    IF samples = <<>> \/ st.err # "nil" THEN st
    ELSE FragmentifySamples(
             FragmentifySample(st, seq, trackID, Head(samples), duration, fail),
             seq, trackID, Tail(samples), duration, fail)

\* The loop over the input fragments from position i on (lines 171-198).
\* A fragment without a moof box makes line 172 dereference nil.
RECURSIVE FragmentifyFrags(_, _, _, _, _, _)
FragmentifyFrags(st, inFragments, h, duration, fail, i) ==
    IF i > Len(inFragments) \/ st.err # "nil" THEN st
    ELSE LET inFrag == h[inFragments[i]]
             s1 == [st EXCEPT !.nGet = @ + 1]
         IN  IF inFrag.Children = <<>> THEN [st EXCEPT !.err = NilDeref]
             ELSE IF Fails(fail, "GetFullSamples", s1.nGet)
             THEN [s1 EXCEPT !.err = "GetFullSamples"]
             ELSE FragmentifyFrags(
                      FragmentifySamples(s1, inFrag.SequenceNumber, inFrag.TrackID,
                                         GetFullSamples(h, inFragments[i]), duration, fail),
                      inFragments, h, duration, fail, i + 1)

\* Mutant: on an error the fragments made so far are returned with it
\* (return outFragments, err).
FragmentifyRun_Partial(inFragments, h, duration, fail) ==
    LET st0 == [out |-> <<>>, cumDur |-> Zero32, err |-> "nil",
                nGet |-> 0, nCreate |-> 0, nAdd |-> 0]
        st == FragmentifyFrags(st0, inFragments, h, duration, fail, 1)
    IN  [frags |-> st.out, err |-> st.err]

\* MediaSegment.Fragmentify(timescale, trex, duration): the fragments and the
\* error it returns; on an error the fragments are nil (the empty sequence).
FragmentifyRun(inFragments, h, duration, fail) ==
    LET st0 == [out |-> <<>>, cumDur |-> Zero32, err |-> "nil",
                nGet |-> 0, nCreate |-> 0, nAdd |-> 0]
        st == FragmentifyFrags(st0, inFragments, h, duration, fail, 1)
    IN  IF st.err # "nil" THEN [frags |-> <<>>, err |-> st.err]
        ELSE [frags |-> st.out, err |-> "nil"]

\* Mutant: a successful call consumes the input: it leaves the segment
\* without fragments (s.Fragments = nil).
Fragmentify_Consume(duration, fail) ==
    /\ LET r == FragmentifyRun(Fragments, heap, duration, fail)
       IN  /\ last' = [op |-> "Fragmentify", arg |-> [duration |-> duration, fail |-> fail],
                       ret |-> r.frags, err |-> r.err]
           /\ Fragments' = IF r.err = "nil" THEN <<>> ELSE Fragments
    /\ UNCHANGED <<Styp, Sidx, SidxsByFrag, EncOptimize, heap, hist>>

Fragmentify(duration, fail) ==
    /\ LET r == FragmentifyRun(Fragments, heap, duration, fail)
       IN  last' = [op |-> "Fragmentify", arg |-> [duration |-> duration, fail |-> fail],
                    ret |-> r.frags, err |-> r.err]
    /\ UNCHANGED <<segment, heap, hist>>

----------------------------------------------------------------------------
(* Inputs *)

\* Sample durations: zero, one, and two values whose sums pass 2^32.
Durs == {U32(0, 0), U32(0, 1), U32(32768, 0), U32(65535, 65535)}

\* Target durations handed to Fragmentify.
Targets == {U32(0, 0), U32(0, 2), U32(65535, 65535)}

SeqsUpTo(n, S) == UNION {[1..k -> S] : k \in 0..n}

\* No failure, or the first GetFullSamples call fails.
ExtractFailures == {NoFailure, Failure("GetFullSamples", 1)}

\* No failure, or the first or the second call of a collaborator fails.
AllFailures ==
    {NoFailure} \cup
    {Failure(k, n) : k \in {"GetFullSamples", "CreateFragment", "AddFullSampleToTrack"},
                     n \in {1, 2}}

----------------------------------------------------------------------------
(* Specification of the segment: any calls in any order *)

Next ==
    \/ \E sidx \in SidxBoxes : AddSidx(sidx)
    \/ \E f \in DOMAIN heap : AddFragment(f)
    \/ LastFragment
    \/ \E v \in EncOptimizeValues : SetEncOptimize(v)
    \/ Size
    \/ \E failAt \in 0..NumTopBoxes : Encode(failAt)
    \/ \E failAt \in 0..NumTopBoxes : EncodeSW(failAt)
    \/ \E failAt \in 0..NumTopBoxes : Info(failAt)
    \/ FirstBox
    \/ \E trex \in {Nil, TrexBox} : CommonSampleDuration(trex)
    \/ \E duration \in Targets, fail \in ExtractFailures : Fragmentify(duration, fail)

Spec == Init /\ [][Next]_vars

----------------------------------------------------------------------------
(* Specification of Fragmentify alone: a segment of two fragments, built by  *)
(* two AddFragment calls, whose samples are drawn from Durs; the second      *)
(* fragment is of the same track as the first or of another.                 *)

InitFragmentify ==
    \E durs \in SeqsUpTo(MaxSamples, Durs), cut \in 0..MaxSamples, track2 \in {1, 2} :
        /\ cut <= Len(durs)
        /\ heap = << Fragment(1, 1, <<Box("moof", 1, 120), Box("mdat", 1, 520)>>,
                              SubSeq(durs, 1, cut)),
                     Fragment(2, track2, <<Box("moof", 2, 112), Box("mdat", 2, 264)>>,
                              SubSeq(durs, cut + 1, Len(durs))) >>
        /\ Styp = Nil
        /\ Sidx = Nil
        /\ SidxsByFrag = <<<<>>, <<>>>>
        /\ Fragments = <<1, 2>>
        /\ EncOptimize = OptimizeNone
        /\ hist = <<[op |-> "AddFragment", arg |-> 1], [op |-> "AddFragment", arg |-> 2]>>
        /\ last = [op |-> "AddFragment", arg |-> 2, ret |-> Nil, err |-> "nil"]

NextFragmentify ==
    \E duration \in Targets, fail \in AllFailures : Fragmentify(duration, fail)

SpecFragmentify == InitFragmentify /\ [][NextFragmentify]_vars

----------------------------------------------------------------------------
(* Specification of the queries: segments built by AddSidx/AddFragment from  *)
(* fragments that include an empty one, and the calls that only read.        *)

InitQueries == Constructed /\ heap = QueryPool

NextQueries ==
    \/ \E sidx \in SidxBoxes : AddSidx(sidx)
    \/ \E f \in DOMAIN heap : AddFragment(f)
    \/ LastFragment
    \/ Size
    \/ FirstBox
    \/ \E trex \in {Nil, TrexBox} : CommonSampleDuration(trex)

SpecQueries == InitQueries /\ [][NextQueries]_vars

----------------------------------------------------------------------------
(* Specification of FirstBox against the encoder: segments built by AddSidx  *)
(* and AddFragment from fragments that include an empty one, FirstBox, and   *)
(* Encode with a writer that takes every box or fails at the first.          *)

NextFirstBox ==
    \/ \E sidx \in SidxBoxes : AddSidx(sidx)
    \/ \E f \in DOMAIN heap : AddFragment(f)
    \/ FirstBox
    \/ \E failAt \in {0, 1} : Encode(failAt)

SpecFirstBox == InitQueries /\ [][NextFirstBox]_vars

----------------------------------------------------------------------------
(* Helpers of the properties *)

IsAddSidx(c) == c.op = "AddSidx"
IsAddFragment(c) == c.op = "AddFragment"

\* The position in hist of the last AddFragment call, 0 when there is none.
LastFragmentCall ==
    LET S == {i \in DOMAIN hist : IsAddFragment(hist[i])}
    IN  IF S = {} THEN 0 ELSE CHOOSE i \in S : \A j \in S : j <= i

\* The position in hist of the first AddSidx call, 0 when there is none.
FirstSidxCall ==
    LET S == {i \in DOMAIN hist : IsAddSidx(hist[i])}
    IN  IF S = {} THEN 0 ELSE CHOOSE i \in S : \A j \in S : i <= j

\* What identifies a written box: its kind and its identity.
Key(w) == <<w.kind, w.id>>
Keys(out) == [i \in DOMAIN out |-> Key(out[i])]

\* The boxes in call order: every call up to the last AddFragment call.
CallOrder ==
    [i \in 1..LastFragmentCall |->
        IF IsAddSidx(hist[i]) THEN <<"sidx", hist[i].arg.id>>
        ELSE <<"fragment", hist[i].arg>>]

RECURSIVE Bytes(_)
Bytes(out) == IF out = <<>> THEN 0 ELSE Head(out).size + Bytes(Tail(out))

EncodeOK(op) == last.op = op /\ last.err = WriteOK

----------------------------------------------------------------------------
(* C1: after any sequence of AddSidx and AddFragment calls on a constructed  *)
(* segment, len(SidxsByFrag) is len(Fragments) or len(Fragments) + 1.        *)
C1_BucketCount ==
    Len(SidxsByFrag) \in {Len(Fragments), Len(Fragments) + 1}

\* Both cases have happened: a fragment with its bucket, and a sidx box
\* appended after it that opened the next bucket.
C1_Witness ==
    /\ Len(Fragments) >= 1
    /\ Len(SidxsByFrag) = Len(Fragments) + 1
    /\ \E i \in DOMAIN hist : i > 1 /\ IsAddSidx(hist[i]) /\ IsAddFragment(hist[i - 1])

(* C2: a successful Encode or EncodeSW writes the styp box first if present, *)
(* then, for each fragment in append order, exactly the sidx boxes appended  *)
(* since the previous fragment, in append order, then the fragment; nothing  *)
(* else is written.                                                          *)
C2_EncodeOrder ==
    (EncodeOK("Encode") \/ EncodeOK("EncodeSW")) =>
        Keys(last.ret) =
            (IF Styp # Nil THEN <<Key(Styp)>> ELSE <<>>) \o CallOrder

\* A styp box, two different sidx boxes and then a fragment were written.
C2_Witness ==
    /\ EncodeOK("Encode")
    /\ Styp # Nil
    /\ Len(last.ret) = 4
    /\ last.ret[2].kind = "sidx" /\ last.ret[3].kind = "sidx"
    /\ last.ret[2].id # last.ret[3].id
    /\ last.ret[4].kind = "fragment"

(* C3: Size called twice in a row returns the same value, and Size returns   *)
(* the number of bytes a successful EncodeSW of the same segment writes      *)
(* (each box writing its own Size() bytes), whichever of the two is called   *)
(* first, also when sidx boxes were appended after the last fragment.        *)
C3_SizeIsEncodedLength ==
    [][ /\ (last.op = "Size" /\ last'.op = "Size") => last'.ret = last.ret
        /\ (last.op = "Size" /\ last'.op = "EncodeSW" /\ last'.err = WriteOK)
               => Bytes(last'.ret) = last.ret
        /\ (EncodeOK("EncodeSW") /\ last'.op = "Size")
               => last'.ret = Bytes(last.ret) ]_vars

\* EncodeSW succeeded on a segment with a styp box, a sidx box before its
\* fragment and a sidx box after its last fragment.
C3_Witness ==
    /\ EncodeOK("EncodeSW")
    /\ Styp # Nil
    /\ Len(Fragments) = 1
    /\ Len(SidxsByFrag) = 2
    /\ SidxsByFrag[1] # <<>>
    /\ SidxsByFrag[2] # <<>>

----------------------------------------------------------------------------
(* Helpers of the Fragmentify properties *)

RECURSIVE Concat(_)
Concat(seqs) == IF seqs = <<>> THEN <<>> ELSE Head(seqs) \o Concat(Tail(seqs))

\* The samples extracted from the input fragments, in input order.
InputSamples == Concat([i \in DOMAIN Fragments |-> GetFullSamples(heap, Fragments[i])])

\* The samples of the output fragments, in output order, as stored.
OutputSamples(out) == Concat([i \in DOMAIN out |-> out[i].samples])

\* The sum of the durations of stored samples as a natural number, in the
\* halves <<hi, lo>> with hi unbounded: no wrap-around.
RECURSIVE SumHi(_)
SumHi(stored) == IF stored = <<>> THEN 0 ELSE Head(stored).sample.Dur[1] + SumHi(Tail(stored))

RECURSIVE SumLo(_)
SumLo(stored) == IF stored = <<>> THEN 0 ELSE Head(stored).sample.Dur[2] + SumLo(Tail(stored))

TotalDur(stored) ==
    <<SumHi(stored) + (SumLo(stored) \div Half), SumLo(stored) % Half>>

FragmentifyOK == last.op = "Fragmentify" /\ last.err = "nil"

----------------------------------------------------------------------------
(* C4: when Fragmentify succeeds, the samples of the output fragments, in    *)
(* output order, are the samples extracted from the input fragments, in      *)
(* input order, and each is stored under the track id of the input fragment  *)
(* it was extracted from.                                                    *)
C4_SampleConservation ==
    FragmentifyOK =>
        LET stored == OutputSamples(last.ret)
        IN  /\ [i \in DOMAIN stored |-> stored[i].sample] = InputSamples
            /\ \A i \in DOMAIN stored :
                   stored[i].track = heap[stored[i].sample.src].TrackID

\* Three samples from two input fragments of different tracks went into two
\* or more output fragments.
C4_Witness ==
    /\ FragmentifyOK
    /\ Len(last.ret) >= 2
    /\ Len(InputSamples) = 3
    /\ heap[1].samples # <<>> /\ heap[2].samples # <<>>
    /\ heap[1].TrackID # heap[2].TrackID

(* C5: when Fragmentify succeeds, every output fragment has at least one     *)
(* sample, and every output fragment but the last that has more than one     *)
(* sample has a sum of sample durations >= the target duration.              *)
C5_DurationLowerBound ==
    FragmentifyOK =>
        \A i \in DOMAIN last.ret :
            /\ Len(last.ret[i].samples) >= 1
            /\ (i < Len(last.ret) /\ Len(last.ret[i].samples) > 1)
                   => Geq32(TotalDur(last.ret[i].samples), last.arg.duration)

\* An output fragment that is not the last took two samples from two input
\* fragments before it reached a non-zero target.
C5_Witness ==
    /\ FragmentifyOK
    /\ Len(last.ret) >= 2
    /\ Len(last.ret[1].samples) = 2
    /\ last.ret[1].samples[1].sample.src # last.ret[1].samples[2].sample.src
    /\ last.arg.duration # Zero32

----------------------------------------------------------------------------
(* Helpers of the Sidx properties *)

\* The position of the first non-empty bucket of SidxsByFrag, 0 when every
\* bucket is empty.
FirstFilledBucket ==
    LET S == {i \in DOMAIN SidxsByFrag : SidxsByFrag[i] # <<>>}
    IN  IF S = {} THEN 0 ELSE CHOOSE i \in S : \A j \in S : i <= j

(* C6, as stated: whenever Sidx is set, SidxsByFrag[0] is non-empty and      *)
(* SidxsByFrag[0][0] is the same box instance as Sidx.                       *)
C6_Original ==
    Sidx # Nil =>
        /\ Len(SidxsByFrag) >= 1
        /\ SidxsByFrag[1] # <<>>
        /\ SidxsByFrag[1][1] = Sidx

(* C6, amended: whenever Sidx is set, some bucket of SidxsByFrag is          *)
(* non-empty and the first box of the first non-empty bucket is the same box *)
(* instance as Sidx; Sidx is unset exactly when every bucket is empty.       *)
C6_SidxIsFirstOfFirstFilledBucket ==
    /\ Sidx # Nil =>
           /\ FirstFilledBucket # 0
           /\ SidxsByFrag[FirstFilledBucket][1] = Sidx
    /\ Sidx = Nil => FirstFilledBucket = 0

\* The first sidx box came after the first fragment: bucket 0 is empty and
\* the next bucket holds two different boxes.
C6_Witness ==
    /\ Sidx # Nil
    /\ Len(SidxsByFrag) = 2
    /\ SidxsByFrag[1] = <<>>
    /\ Len(SidxsByFrag[2]) = 2
    /\ SidxsByFrag[2][1] # SidxsByFrag[2][2]

(* C7: Sidx is unset until the first AddSidx call, is the argument of that   *)
(* call from then on, and no later AddSidx, AddFragment, Size, Encode,       *)
(* EncodeSW, Info, Fragmentify, CommonSampleDuration or FirstBox call        *)
(* changes it (AddSidx is called with boxes, not with nil).                  *)
C7_SidxSetOnce ==
    /\ Sidx = (IF FirstSidxCall = 0 THEN Nil ELSE hist[FirstSidxCall].arg)
    /\ (last.op = "AddSidx" /\ FirstSidxCall = Len(hist)) => Sidx = last.arg

\* Two AddSidx calls with different boxes were made, and a call that is not
\* an append came after them.
C7_Witness ==
    /\ \E i, j \in DOMAIN hist :
           /\ i < j
           /\ IsAddSidx(hist[i]) /\ IsAddSidx(hist[j])
           /\ hist[i].arg # hist[j].arg
    /\ last.op \in {"Size", "Encode", "EncodeSW", "Info", "Fragmentify",
                    "CommonSampleDuration", "FirstBox"}

----------------------------------------------------------------------------
(* Helpers of the CommonSampleDuration properties *)

\* What each fragment's own CommonSampleDuration reports.
Reported == [i \in DOMAIN Fragments |-> FragCommonSampleDuration(heap, Fragments[i])]

\* The positions (1-based) of the fragments whose duration differs from the
\* first fragment's.
Differing == {i \in DOMAIN Fragments : Reported[i].dur # Reported[1].dur}

CommonDurCalled == last.op = "CommonSampleDuration" /\ last.arg # Nil

(* C8: with a non-nil trex and every fragment's own CommonSampleDuration     *)
(* succeeding, MediaSegment.CommonSampleDuration on a segment with fragments *)
(* returns d without error when every fragment reports d, and otherwise an   *)
(* error naming the 1-based position of the first fragment whose duration    *)
(* differs from the first fragment's.                                        *)
C8_CommonDuration ==
    (/\ CommonDurCalled
     /\ Fragments # <<>>
     /\ \A i \in DOMAIN Fragments : Reported[i].err = "nil") =>
        IF Differing = {}
        THEN last.err = "nil" /\ last.ret.dur = Reported[1].dur
        ELSE /\ last.err = DifferentDuration
             /\ last.ret.frag \in Differing
             /\ \A i \in Differing : last.ret.frag <= i

\* Durations 1024, 1024, 2048: the error names fragment 3.
C8_Witness ==
    /\ CommonDurCalled
    /\ Len(Fragments) = 3
    /\ \A i \in DOMAIN Fragments : Reported[i].err = "nil"
    /\ Reported[1].dur = U32(0, 1024)
    /\ Differing = {3}
    /\ last.ret.frag = 3

(* C9: whenever MediaSegment.CommonSampleDuration returns without error, for *)
(* any segment and any non-nil trex, the returned duration is non-zero and   *)
(* is the common sample duration every fragment reports.                     *)
C9_NonZeroCommonDuration ==
    (CommonDurCalled /\ last.err = "nil") =>
        /\ last.ret.dur # Zero32
        /\ \A i \in DOMAIN Fragments :
               Reported[i].err = "nil" /\ Reported[i].dur = last.ret.dur

(* C10: FirstBox returns the styp box whenever it is present; otherwise      *)
(* SidxsByFrag[0][0] if that bucket is non-empty; otherwise the first child  *)
(* box of the first fragment if there is a fragment and it has a child;      *)
(* otherwise the no-boxes error.                                             *)
C10_FirstBoxPriority ==
    last.op = "FirstBox" =>
        IF Styp # Nil
        THEN last.err = "nil" /\ last.ret = Styp
        ELSE IF Len(SidxsByFrag) >= 1 /\ SidxsByFrag[1] # <<>>
        THEN last.err = "nil" /\ last.ret = SidxsByFrag[1][1]
        ELSE IF Len(Fragments) >= 1 /\ heap[Fragments[1]].Children # <<>>
        THEN last.err = "nil" /\ last.ret = heap[Fragments[1]].Children[1]
        ELSE last.err = NoBoxes /\ last.ret = Nil

\* The styp box was returned although a sidx box and a fragment are present.
C10_Witness ==
    /\ last.op = "FirstBox"
    /\ Styp # Nil
    /\ Len(Fragments) >= 1
    /\ SidxsByFrag[1] # <<>>
    /\ last.ret = Styp

----------------------------------------------------------------------------
\* A segment as a constructor returned it: neither AddSidx nor AddFragment
\* has been called.
JustConstructed == hist = <<>>

\* What Size, Encode, EncodeSW and FirstBox give on a segment without boxes.
EmptyResults ==
    /\ last.op = "Size" => last.ret = 0
    /\ last.op \in {"Encode", "EncodeSW"} => last.err = WriteOK /\ last.ret = <<>>
    /\ last.op = "FirstBox" => last.err = NoBoxes /\ last.ret = Nil

(* C11, as stated: on a segment as returned by any of the constructors, on   *)
(* which neither AddSidx nor AddFragment has been called, Size returns 0,    *)
(* Encode writes zero bytes and succeeds, and FirstBox fails with the        *)
(* no-boxes error.                                                           *)
C11_Original == JustConstructed => EmptyResults

(* C11, amended: on a segment constructed without a styp box                 *)
(* (NewMediaSegmentWithoutStyp, or NewMediaSegmentWithStyp(nil)), on which   *)
(* neither AddSidx nor AddFragment has been called, Size returns 0, Encode   *)
(* writes zero bytes and succeeds, and FirstBox fails with the no-boxes      *)
(* error; on one constructed with a styp box, Size returns the size of the   *)
(* styp box, a successful Encode writes the styp box alone, and FirstBox     *)
(* returns the styp box.                                                     *)
C11_EmptySegment ==
    JustConstructed =>
        /\ Styp = Nil => EmptyResults
        /\ Styp # Nil =>
              /\ last.op = "Size" => last.ret = Styp.size
              /\ (EncodeOK("Encode") \/ EncodeOK("EncodeSW"))
                     => Keys(last.ret) = <<Key(Styp)>>
              /\ last.op = "FirstBox" => last.err = "nil" /\ last.ret = Styp

\* FirstBox was called on a segment just constructed without a styp box.
C11_Witness ==
    /\ JustConstructed
    /\ Styp = Nil
    /\ last.op = "FirstBox"
    /\ last.err = NoBoxes

----------------------------------------------------------------------------
\* The boxes of the segment in traversal order: the styp box if present, then
\* the sidx boxes and fragments in call order up to the last fragment.
TraversalOrder == (IF Styp # Nil THEN <<Key(Styp)>> ELSE <<>>) \o CallOrder

\* The last call was an Encode or EncodeSW whose k-th box failed.
EncodeFailedAt(k) ==
    /\ last.op \in {"Encode", "EncodeSW"}
    /\ last.arg = k
    /\ k \in DOMAIN TraversalOrder

(* C12: when the k-th box in traversal order is the first whose              *)
(* serialization fails during Encode or EncodeSW, the call returns that      *)
(* failure, exactly the k-1 boxes before it have been written, and no box    *)
(* after it is attempted: what was written is the first k-1 boxes of the     *)
(* traversal order and nothing else.                                         *)
C12_StopAtFirstFailure ==
    \A k \in DOMAIN TraversalOrder :
        EncodeFailedAt(k) =>
            /\ last.err = WriteError
            /\ Keys(last.ret) = SubSeq(TraversalOrder, 1, k - 1)

\* EncodeSW failed at the third of four boxes: two were written, the fourth
\* was not.
C12_Witness ==
    /\ EncodeFailedAt(3)
    /\ last.op = "EncodeSW"
    /\ Len(TraversalOrder) = 4
    /\ last.err = WriteError
    /\ Len(last.ret) = 2

----------------------------------------------------------------------------
\* The first n stored samples of an output fragment.
FirstSamples(of, n) == SubSeq(of.samples, 1, n)

\* A sum of durations as the uint32 accumulator holds it: modulo 2^32.
Wrap32(total) == U32(total[1] % Half, total[2])

(* C13, as stated: for every output fragment of a successful Fragmentify,    *)
(* the sum of the durations of all its samples except the last is strictly   *)
(* less than the target duration.                                            *)
C13_Original ==
    FragmentifyOK =>
        \A i \in DOMAIN last.ret :
            LET of == last.ret[i]
            IN  ~Geq32(TotalDur(FirstSamples(of, Len(of.samples) - 1)),
                       last.arg.duration)

(* C13, amended: for every output fragment of a successful Fragmentify and   *)
(* every sample of it except the last, the sum modulo 2^32 of the durations  *)
(* of the fragment's samples up to and including that sample is non-zero and *)
(* strictly less than the target duration.                                   *)
C13_ClosedAtTarget ==
    FragmentifyOK =>
        \A i \in DOMAIN last.ret :
            LET of == last.ret[i]
            IN  \A n \in 1..(Len(of.samples) - 1) :
                    LET cum == Wrap32(TotalDur(FirstSamples(of, n)))
                    IN  cum # Zero32 /\ ~Geq32(cum, last.arg.duration)

\* An output fragment took a third sample after the durations of its first
\* two had added up to 2^32 or more: the accumulator had wrapped around to a
\* value below the target.
C13_Witness ==
    /\ FragmentifyOK
    /\ \E i \in DOMAIN last.ret :
           /\ Len(last.ret[i].samples) = 3
           /\ TotalDur(FirstSamples(last.ret[i], 2))[1] >= Half

----------------------------------------------------------------------------
(* C14: a Fragmentify call, whether it succeeds or fails, leaves the source  *)
(* segment as it was: Styp, Sidx, SidxsByFrag, Fragments (their order and,   *)
(* in the heap, their samples) and EncOptimize are the same after the call   *)
(* as before it, and no returned fragment is one of the input fragments.     *)
C14_SourceUnmodified ==
    [][ last'.op = "Fragmentify" =>
            /\ segment' = segment
            /\ heap' = heap
            /\ \A i \in DOMAIN last'.ret :
                   \A j \in DOMAIN Fragments : last'.ret[i].ptr # Fragments[j] ]_vars

\* Fragmentify returned two or more fragments for a segment that has a styp
\* box, a sidx box and two fragments.
C14_Witness ==
    /\ FragmentifyOK
    /\ Len(last.ret) >= 2
    /\ Styp # Nil
    /\ Sidx # Nil
    /\ Len(Fragments) = 2

----------------------------------------------------------------------------
\* The number of calls of each kind a Fragmentify of the segment makes when
\* none fails: one extraction per input fragment, one insertion per sample,
\* one creation per output fragment.
CallsMade(kind, duration) ==
    CASE kind = "GetFullSamples" -> Len(Fragments)
      [] kind = "AddFullSampleToTrack" -> Len(InputSamples)
      [] kind = "CreateFragment" ->
             Len(FragmentifyRun(Fragments, heap, duration, NoFailure).frags)
      [] OTHER -> 0

\* The last call was a Fragmentify in which the failure given to it happened.
FragmentifyFailed ==
    /\ last.op = "Fragmentify"
    /\ last.arg.fail # NoFailure
    /\ last.arg.fail.at <= CallsMade(last.arg.fail.kind, last.arg.duration)

(* C15: when a GetFullSamples, CreateFragment or AddFullSampleToTrack call   *)
(* fails during Fragmentify, the call returns that failure and no fragments  *)
(* at all, also when output fragments had been completed before it.          *)
C15_NoPartialOutput ==
    FragmentifyFailed =>
        /\ last.err = last.arg.fail.kind
        /\ last.ret = <<>>

\* With target 0 the first sample completed an output fragment; the second
\* insertion failed and nothing was returned.
C15_Witness ==
    /\ FragmentifyFailed
    /\ last.arg.duration = Zero32
    /\ last.arg.fail = Failure("AddFullSampleToTrack", 2)
    /\ last.err = "AddFullSampleToTrack"
    /\ last.ret = <<>>

----------------------------------------------------------------------------
\* The fragments among the boxes at positions from..to of the traversal order.
FragmentsAt(from, to) ==
    {TraversalOrder[p][2] : p \in {q \in from..to : q \in DOMAIN TraversalOrder
                                       /\ TraversalOrder[q][1] = "fragment"}}

(* C16: in Encode and EncodeSW, when a fragment's own encode is invoked its  *)
(* EncOptimize flag equals the segment's EncOptimize: every fragment written *)
(* was written with that value, and the fragment whose encode failed has it. *)
(* After a successful call every fragment of the segment carries the         *)
(* segment's value.  After a failed call the fragments after the failing box *)
(* (those that occur only after it) keep the flag they had before the call.  *)
C16_EncOptimizePropagation ==
    [][ last'.op \in {"Encode", "EncodeSW"} =>
            LET k == last'.arg
                reached == IF last'.err = WriteOK
                           THEN FragmentsAt(1, Len(TraversalOrder))
                           ELSE FragmentsAt(1, k)
                after == FragmentsAt(k + 1, Len(TraversalOrder)) \ reached
            IN  /\ \A i \in DOMAIN last'.ret :
                       last'.ret[i].kind = "fragment" => last'.ret[i].opt = EncOptimize
                /\ \A f \in reached : heap'[f].EncOptimize = EncOptimize
                /\ last'.err = WriteOK =>
                       \A j \in DOMAIN Fragments :
                           heap'[Fragments[j]].EncOptimize = EncOptimize
                /\ last'.err # WriteOK =>
                       \A f \in after : heap'[f].EncOptimize = heap[f].EncOptimize ]_vars

\* Encode failed at the sidx box between two fragments after the segment's
\* EncOptimize was changed: the first fragment has the new value, the second
\* still has the old one.
C16_Witness ==
    /\ last.op = "Encode"
    /\ last.err = WriteError
    /\ EncOptimize = OptimizeTrun
    /\ Len(Fragments) = 2
    /\ Fragments[1] # Fragments[2]
    /\ SidxsByFrag[2] # <<>>
    /\ heap[Fragments[1]].EncOptimize = OptimizeTrun
    /\ heap[Fragments[2]].EncOptimize = OptimizeNone

----------------------------------------------------------------------------
\* The input fragment that supplied the first sample of an output fragment.
FirstSource(of) == heap[of.samples[1].sample.src]

(* C17: every output fragment of a successful Fragmentify was created with   *)
(* the sequence number and the track id of the input fragment that supplies  *)
(* its first sample, also when it goes on to receive samples from later      *)
(* input fragments.                                                          *)
C17_CreatedFromFirstSource ==
    FragmentifyOK =>
        \A i \in DOMAIN last.ret :
            /\ last.ret[i].samples # <<>>
            /\ last.ret[i].SequenceNumber = FirstSource(last.ret[i]).SequenceNumber
            /\ last.ret[i].TrackID = FirstSource(last.ret[i]).TrackID

\* An output fragment that began in the first input fragment received a
\* sample of the second one, which has another sequence number and track id,
\* and the next output fragment began in the second input fragment.
C17_Witness ==
    /\ FragmentifyOK
    /\ Len(last.ret) = 2
    /\ heap[1].TrackID # heap[2].TrackID
    /\ last.ret[1].samples[1].sample.src = 1
    /\ \E n \in DOMAIN last.ret[1].samples : last.ret[1].samples[n].sample.src = 2
    /\ last.ret[2].samples[1].sample.src = 2
    /\ last.ret[2].SequenceNumber = 2

----------------------------------------------------------------------------
\* s is the beginning of t.
IsPrefix(s, t) == Len(s) <= Len(t) /\ SubSeq(t, 1, Len(s)) = s

(* C18: the aggregator is append-only.  Over every call of AddSidx,          *)
(* AddFragment, LastFragment, Size, Encode, EncodeSW, Info, Fragmentify,     *)
(* CommonSampleDuration or FirstBox, Fragments before the call is a prefix   *)
(* of Fragments after it, and every bucket of SidxsByFrag before the call is *)
(* a prefix of the same bucket after it.                                     *)
C18_AppendOnly ==
    [][ /\ IsPrefix(Fragments, Fragments')
        /\ Len(SidxsByFrag) <= Len(SidxsByFrag')
        /\ \A i \in DOMAIN SidxsByFrag : IsPrefix(SidxsByFrag[i], SidxsByFrag'[i]) ]_vars

\* A second sidx box went into a bucket that already held one, in a segment
\* that already had a fragment.
C18_Witness ==
    /\ last.op = "AddSidx"
    /\ Len(Fragments) = 1
    /\ Len(SidxsByFrag) = 2
    /\ Len(SidxsByFrag[2]) = 2
    /\ SidxsByFrag[2][2] = last.arg

----------------------------------------------------------------------------
\* FirstBox was called and then Encode, which succeeded, on the same segment.
FirstBoxThenEncode ==
    /\ last.op = "FirstBox"
    /\ last'.op = "Encode"
    /\ last'.err = WriteOK

\* Box b is the first top-level box of what was written, or the first box
\* inside the fragment that is the first thing written.
FirstWritten(b, out) ==
    /\ out # <<>>
    /\ \/ out[1].kind # "fragment" /\ Key(out[1]) = Key(b)
       \/ /\ out[1].kind = "fragment"
          /\ heap[out[1].id].Children # <<>>
          /\ heap[out[1].id].Children[1] = b

(* C19, as stated: when FirstBox returns a box b, b is the first top-level   *)
(* box a successful Encode of the same segment writes (or the first box      *)
(* inside the first thing written); when FirstBox fails, Encode writes       *)
(* nothing.                                                                  *)
C19_Original ==
    [][ FirstBoxThenEncode =>
            IF last.err = "nil" THEN FirstWritten(last.ret, last'.ret)
            ELSE Bytes(last'.ret) = 0 ]_vars

(* C19, amended: on a segment that has a styp box or a fragment, a box b     *)
(* that FirstBox returns is the first top-level box a successful Encode      *)
(* writes, or the first box inside the fragment that is the first thing      *)
(* written; on a segment with neither, FirstBox returns the first sidx box   *)
(* appended, if there is one, and Encode writes nothing.  When FirstBox      *)
(* fails the segment has no styp box and no sidx box before its first        *)
(* fragment, and either it has no fragment and Encode writes nothing, or the *)
(* first thing Encode writes is its first fragment, which has no child box.  *)
C19_FirstBoxAndEncode ==
    [][ FirstBoxThenEncode =>
            IF last.err = "nil"
            THEN IF Styp # Nil \/ Fragments # <<>>
                 THEN FirstWritten(last.ret, last'.ret)
                 ELSE /\ last.ret = SidxsByFrag[1][1]
                      /\ last'.ret = <<>>
            ELSE /\ last.err = NoBoxes
                 /\ Styp = Nil
                 /\ Len(SidxsByFrag) > 0 => SidxsByFrag[1] = <<>>
                 /\ IF Fragments = <<>> THEN last'.ret = <<>>
                    ELSE /\ last'.ret # <<>>
                         /\ Key(last'.ret[1]) = <<"fragment", Fragments[1]>>
                         /\ heap[Fragments[1]].Children = <<>> ]_vars

\* Encode succeeded and wrote nothing on a segment that has no styp box and
\* no fragment but holds a sidx box, the box FirstBox returns.
C19_Witness ==
    /\ EncodeOK("Encode")
    /\ last.ret = <<>>
    /\ Styp = Nil
    /\ Fragments = <<>>
    /\ Sidx # Nil
    /\ FirstBoxOf(Styp, SidxsByFrag, Fragments, heap).box = Sidx

----------------------------------------------------------------------------
(* C20: Fragmentify never inserts a sample under a track id other than the   *)
(* one its open output fragment was created with: the track id given to      *)
(* every AddFullSampleToTrack call is the track id that was given to the     *)
(* CreateFragment call that produced that output fragment, whatever the      *)
(* tracks of the input fragments and the accumulator at their boundaries.    *)
C20_TrackOfOpenFragment ==
    FragmentifyOK =>
        \A i \in DOMAIN last.ret :
            \A n \in DOMAIN last.ret[i].samples :
                last.ret[i].samples[n].track = last.ret[i].TrackID

====
